---- MODULE Spec2Model ----
(***************************************************************************)
(* Model of the job scheduler of dnd-scribe (src/jobs.py): JobManager with *)
(* its shared lock, the job table, the per-job checkpoint events, the      *)
(* speaker maps, the threads that call create_job and set_speaker_names,   *)
(* and the background worker JobManager._run with the progress reports of  *)
(* pipeline.transcribe_audio (src/pipeline.py).                            *)
(*                                                                         *)
(* Every "with self._lock:" block is two steps: the acquisition of the     *)
(* lock and the body, which ends by releasing it.  Statements outside a    *)
(* lock block are steps of their own.  A job id (uuid4 in the code) is the *)
(* next unused number.                                                     *)
(***************************************************************************)
EXTENDS Integers, Sequences, FiniteSets, TLC

\* ---- bounds -------------------------------------------------------------
MaxJobs == 2        \* job ids that may be generated
NumCreators == 2    \* threads calling create_job, one call each
NumSetters == 2     \* threads calling set_speaker_names, one call each
MaxSegs == 3        \* segments of a transcript given to a function of pipeline.py

JobIds == 1..MaxJobs
Creators == 1..NumCreators
Setters == 1..NumSetters
SpeakerMaps == {"names_a", "names_b"}

\* ---- JobStatus ----------------------------------------------------------
QUEUED == "queued"
LOADING_MODEL == "loading_model"
LOADING_AUDIO == "loading_audio"
TRANSCRIBING == "transcribing"
ALIGNING == "aligning"
DIARIZING == "diarizing"
AWAITING_SPEAKERS == "awaiting_speakers"
SAVING == "saving"
GENERATING_RECAP == "generating_recap"
COMPLETED == "completed"
FAILED == "failed"

JobStatus ==
  <<QUEUED, LOADING_MODEL, LOADING_AUDIO, TRANSCRIBING, ALIGNING, DIARIZING,
    AWAITING_SPEAKERS, SAVING, GENERATING_RECAP, COMPLETED, FAILED>>

None == "None"

\* _STAGE_MAP with the entry of "aligning" pointing at an earlier state
StageMapSwapped ==
  [s \in {"loading_model", "loading_audio", "transcribing", "aligning",
          "diarizing", "done_transcription"} |->
     CASE s = "loading_model" -> LOADING_MODEL
       [] s = "loading_audio" -> LOADING_AUDIO
       [] s = "transcribing" -> TRANSCRIBING
       [] s = "aligning" -> LOADING_AUDIO
       [] s = "diarizing" -> DIARIZING
       [] s = "done_transcription" -> AWAITING_SPEAKERS]

\* _STAGE_MAP
STAGE_MAP ==
  [s \in {"loading_model", "loading_audio", "transcribing", "aligning",
          "diarizing", "done_transcription"} |->
     CASE s = "loading_model" -> LOADING_MODEL
       [] s = "loading_audio" -> LOADING_AUDIO
       [] s = "transcribing" -> TRANSCRIBING
       [] s = "aligning" -> ALIGNING
       [] s = "diarizing" -> DIARIZING
       [] s = "done_transcription" -> AWAITING_SPEAKERS]

\* _STAGE_MAP[stage]: a lookup that raises for a stage not in the table
StageIndex(stage, default) ==
  IF stage \in DOMAIN STAGE_MAP THEN STAGE_MAP[stage] ELSE "KeyError"

\* _STAGE_MAP.get(stage, default)
StageGet(stage, default) ==
  IF stage \in DOMAIN STAGE_MAP THEN STAGE_MAP[stage] ELSE default

\* The progress(stage, message, percent) calls of pipeline.transcribe_audio,
\* in the order it makes them; hf_token is what line 87 reads from the config
\* or the environment, and tells whether diarization runs.
Reports(hf_token) ==
  << [stage |-> "loading_model", message |-> "Loading Whisper model", percent |-> 2],
     [stage |-> "loading_audio", message |-> "Loading audio", percent |-> 5],
     [stage |-> "transcribing", message |-> "Transcribing audio...", percent |-> 10],
     [stage |-> "aligning", message |-> "Aligning transcript...", percent |-> 72],
     IF hf_token
       THEN [stage |-> "diarizing", message |-> "Running speaker diarization...",
             percent |-> 82]
       ELSE [stage |-> "diarizing",
             message |-> "No HuggingFace token - skipping speaker diarization",
             percent |-> 95],
     [stage |-> "done_transcription", message |-> "Transcription complete",
      percent |-> 95] >>

\* ---- state --------------------------------------------------------------
VARIABLES
  jobs,            \* JobManager._jobs: job id -> Job
  lock,            \* JobManager._lock: the thread that holds it
  speaker_events,  \* JobManager._speaker_events: job id -> is the Event set
  speaker_maps,    \* JobManager._speaker_maps: job id -> speaker map
  nextId,          \* the next job id uuid4 yields
  cr,              \* the create_job call of each creator thread
  st,              \* the set_speaker_names call of each setter thread
  wk,              \* the worker thread (_run) of each job id
  returned,        \* job id -> number of set_speaker_names calls that returned
  recapCalls,      \* job id -> number of pipeline.generate_recap invocations
  submitted,       \* job id -> the (speaker_map, skip_recap) pairs recorded
  rd,              \* the handler of web.py that calls get_job and reads the Job
  web,             \* the HTTP status each handler of web.py answered with
  fx,              \* a call of a function of pipeline.py: arguments and result
  sse              \* event_generator of job_events: its locals and what it sent

vars == <<jobs, lock, speaker_events, speaker_maps, nextId, cr, st, wk,
          returned, recapCalls, submitted, rd, web, fx, sse>>

\* what the operations of JobManager and its worker leave alone
outside == <<rd, web, fx, sse>>

NoThread == <<"none", 0>>
CreatorThread(c) == <<"creator", c>>
SetterThread(s) == <<"setter", s>>
WorkerThread(j) == <<"worker", j>>
ReaderThread == <<"reader", 0>>
PollerThread == <<"poller", 0>>

\* Job(...) as create_job builds it
Job(skip_recap) ==
  [skip_recap |-> skip_recap,
   status |-> QUEUED,
   progress_message |-> "",
   progress_percent |-> 0,
   error |-> None,
   transcript |-> None,
   speaker_samples |-> None]

\* no function of pipeline.py under way
NoCall ==
  [pc |-> "none", fn |-> None, transcript |-> [segments |-> <<>>],
   speaker_map |-> <<>>, num_samples |-> 0, result |-> <<>>,
   job |-> Job(FALSE), stage |-> None, message |-> None, percent |-> 0]

\* event_generator before the stream is opened: last_msg = last_status =
\* None, nothing read, nothing sent
NoStream ==
  [pc |-> "idle", job_id |-> 0, job |-> None,
   last_status |-> None, last_msg |-> None,
   status |-> None, message |-> None, percent |-> 0,
   sent_status |-> None, sent_msg |-> None, sent_percent |-> 0,
   event |-> None]

\* JobManager() and the handlers of web.py before any request
Constructed ==
  /\ jobs = <<>>
  /\ lock = NoThread
  /\ speaker_events = <<>>
  /\ speaker_maps = <<>>
  /\ nextId = 1
  /\ cr = [c \in Creators |->
             [pc |-> "idle", skip_recap |-> FALSE, job_id |-> 0,
              result |-> None]]
  /\ st = [s \in Setters |->
             [pc |-> "idle", job_id |-> 0, speaker_map |-> None,
              skip_recap |-> FALSE, result |-> None]]
  /\ wk = [j \in JobIds |-> [pc |-> "unstarted", i |-> 1, speaker_map |-> None]]
  /\ returned = [j \in JobIds |-> 0]
  /\ recapCalls = [j \in JobIds |-> 0]
  /\ submitted = [j \in JobIds |-> {}]
  /\ rd = [pc |-> "idle", job_id |-> 0, job |-> None, status |-> None,
           message |-> None, percent |-> 0, list |-> {}]
  /\ web = [create |-> [c \in Creators |-> 0],
            speakers |-> [s \in Setters |-> 0],
            job |-> 0]
  /\ sse = NoStream

Init ==
  /\ Constructed
  /\ fx = NoCall

Terminal == {COMPLETED, FAILED}

\* ---- create_job ---------------------------------------------------------
\* the admission test with AWAITING_SPEAKERS taken for a finished state
JobRunningUnlessAwaiting ==
  \E j \in DOMAIN jobs : jobs[j].status \notin Terminal \cup {AWAITING_SPEAKERS}

\* the admission test with only COMPLETED taken for a finished state
JobRunningUnlessCompleted ==
  \E j \in DOMAIN jobs : jobs[j].status # COMPLETED

\* the test of the loop in create_job: some job is not COMPLETED or FAILED
JobRunning == \E j \in DOMAIN jobs : jobs[j].status \notin Terminal

\* number of calls that may still take a job id
Pending == Cardinality({c \in Creators : cr[c].pc = "check"})

\* a thread calls create_job and enters the first lock block; the calls are
\* numbered in the order in which they start
CreateCall(c, skip_recap) ==
  /\ cr[c].pc = "idle"
  /\ \A b \in Creators : b < c => cr[b].pc # "idle"
  /\ lock = NoThread
  /\ nextId + Pending <= MaxJobs
  /\ lock' = CreatorThread(c)
  /\ cr' = [cr EXCEPT ![c] = [@ EXCEPT !.pc = "check",
                                       !.skip_recap = skip_recap]]
  /\ UNCHANGED <<jobs, speaker_events, speaker_maps, nextId, st, wk,
                 returned, recapCalls>>
  /\ UNCHANGED <<submitted, outside>>

\* the admission check; on success the lock is released, the id is drawn and
\* the Job is built
CreateCheck(c) ==
  /\ cr[c].pc = "check"
  /\ lock = CreatorThread(c)
  /\ lock' = NoThread
  /\ IF JobRunning
       THEN /\ cr' = [cr EXCEPT ![c] = [@ EXCEPT !.pc = "done",
                                                 !.skip_recap = FALSE,
                                                 !.result = "RuntimeError"]]
            /\ UNCHANGED nextId
       ELSE /\ cr' = [cr EXCEPT ![c] = [@ EXCEPT !.pc = "built",
                                                 !.job_id = nextId]]
            /\ nextId' = nextId + 1
  /\ UNCHANGED <<jobs, speaker_events, speaker_maps, st, wk, returned,
                 recapCalls>>
  /\ UNCHANGED <<submitted, outside>>

\* entering the second lock block
CreateAcquire(c) ==
  /\ cr[c].pc = "built"
  /\ lock = NoThread
  /\ lock' = CreatorThread(c)
  /\ cr' = [cr EXCEPT ![c].pc = "insert"]
  /\ UNCHANGED <<jobs, speaker_events, speaker_maps, nextId, st, wk,
                 returned, recapCalls>>
  /\ UNCHANGED <<submitted, outside>>

\* a second lock block that registers the job and leaves the Event for later
CreateInsertJobOnly(c) ==
  /\ cr[c].pc = "insert"
  /\ lock = CreatorThread(c)
  /\ lock' = NoThread
  /\ jobs' = (cr[c].job_id :> Job(cr[c].skip_recap)) @@ jobs
  /\ cr' = [cr EXCEPT ![c] = [@ EXCEPT !.pc = "start", !.skip_recap = FALSE]]
  /\ UNCHANGED <<speaker_events, speaker_maps, nextId, st, wk, returned,
                 recapCalls>>
  /\ UNCHANGED <<submitted, outside>>

\* the second lock block: the job and its Event are registered
CreateInsert(c) ==
  /\ cr[c].pc = "insert"
  /\ lock = CreatorThread(c)
  /\ lock' = NoThread
  /\ jobs' = (cr[c].job_id :> Job(cr[c].skip_recap)) @@ jobs
  /\ speaker_events' = (cr[c].job_id :> FALSE) @@ speaker_events
  /\ cr' = [cr EXCEPT ![c] = [@ EXCEPT !.pc = "start", !.skip_recap = FALSE]]
  /\ UNCHANGED <<speaker_maps, nextId, st, wk, returned, recapCalls>>
  /\ UNCHANGED <<submitted, outside>>

\* thread.start() and return job_id
CreateStart(c) ==
  /\ cr[c].pc = "start"
  /\ wk' = [wk EXCEPT ![cr[c].job_id].pc = "p1"]
  /\ cr' = [cr EXCEPT ![c] = [@ EXCEPT !.pc = "done", !.result = "ok"]]
  /\ UNCHANGED <<jobs, lock, speaker_events, speaker_maps, nextId, st,
                 returned, recapCalls>>
  /\ UNCHANGED <<submitted, outside>>

\* ---- set_speaker_names --------------------------------------------------
\* the test of set_speaker_names accepting every unfinished job
NotAwaitingLax(job_id) ==
  \/ job_id \notin DOMAIN jobs
  \/ jobs[job_id].status \in Terminal

\* the test that makes set_speaker_names raise ValueError
NotAwaiting(job_id) ==
  \/ job_id \notin DOMAIN jobs
  \/ jobs[job_id].status # AWAITING_SPEAKERS

\* a thread calls set_speaker_names and enters the lock block; the calls are
\* numbered in the order in which they start
SetCall(s, job_id, speaker_map, skip_recap) ==
  /\ st[s].pc = "idle"
  /\ \A b \in Setters : b < s => st[b].pc # "idle"
  /\ lock = NoThread
  /\ lock' = SetterThread(s)
  /\ st' = [st EXCEPT ![s] = [@ EXCEPT !.pc = "check",
                                       !.job_id = job_id,
                                       !.speaker_map = speaker_map,
                                       !.skip_recap = skip_recap]]
  /\ UNCHANGED <<jobs, speaker_events, speaker_maps, nextId, cr, wk,
                 returned, recapCalls>>
  /\ UNCHANGED <<submitted, outside>>

\* a lock block that keeps a skip_recap flag that create_job was given
SetCheckKeepsFlag(s) ==
  /\ st[s].pc = "check"
  /\ lock = SetterThread(s)
  /\ lock' = NoThread
  /\ IF NotAwaiting(st[s].job_id)
       THEN /\ st' = [st EXCEPT ![s] = [@ EXCEPT !.pc = "done",
                                                 !.speaker_map = None,
                                                 !.skip_recap = FALSE,
                                                 !.result = "ValueError"]]
            /\ UNCHANGED <<jobs, speaker_maps, submitted>>
       ELSE /\ submitted' = [submitted EXCEPT ![st[s].job_id] =
                                @ \cup {<<st[s].speaker_map, st[s].skip_recap>>}]
            /\ speaker_maps' =
                 [j \in DOMAIN speaker_maps \cup {st[s].job_id} |->
                    IF j = st[s].job_id THEN st[s].speaker_map
                                        ELSE speaker_maps[j]]
            /\ jobs' = [jobs EXCEPT ![st[s].job_id].skip_recap =
                                      @ \/ st[s].skip_recap]
            /\ st' = [st EXCEPT ![s] = [@ EXCEPT !.pc = "signal",
                                                 !.speaker_map = None,
                                                 !.skip_recap = FALSE]]
  /\ UNCHANGED <<speaker_events, nextId, cr, wk, returned, recapCalls>>
  /\ UNCHANGED outside

\* the lock block: the check, then the map and the flag are recorded
SetCheck(s) ==
  /\ st[s].pc = "check"
  /\ lock = SetterThread(s)
  /\ lock' = NoThread
  /\ IF NotAwaiting(st[s].job_id)
       THEN /\ st' = [st EXCEPT ![s] = [@ EXCEPT !.pc = "done",
                                                 !.speaker_map = None,
                                                 !.skip_recap = FALSE,
                                                 !.result = "ValueError"]]
            /\ UNCHANGED <<jobs, speaker_maps, submitted>>
       ELSE /\ submitted' = [submitted EXCEPT ![st[s].job_id] =
                                @ \cup {<<st[s].speaker_map, st[s].skip_recap>>}]
            /\ speaker_maps' =
                 [j \in DOMAIN speaker_maps \cup {st[s].job_id} |->
                    IF j = st[s].job_id THEN st[s].speaker_map
                                        ELSE speaker_maps[j]]
            /\ jobs' = [jobs EXCEPT ![st[s].job_id].skip_recap = st[s].skip_recap]
            /\ st' = [st EXCEPT ![s] = [@ EXCEPT !.pc = "signal",
                                                 !.speaker_map = None,
                                                 !.skip_recap = FALSE]]
  /\ UNCHANGED <<speaker_events, nextId, cr, wk, returned, recapCalls>>
  /\ UNCHANGED outside

\* a notification that only reaches a worker already waiting
Notified(job_id) ==
  IF wk[job_id].pc = "wait"
    THEN [speaker_events EXCEPT ![job_id] = TRUE]
    ELSE speaker_events

\* Event.set(): the flag stays set until someone clears it (nobody does)
Signalled(job_id) == [speaker_events EXCEPT ![job_id] = TRUE]

\* self._speaker_events[job_id].set(), after the lock block, and return
SetSignal(s) ==
  /\ st[s].pc = "signal"
  /\ speaker_events' = Signalled(st[s].job_id)
  /\ st' = [st EXCEPT ![s] = [@ EXCEPT !.pc = "done", !.result = "ok"]]
  /\ returned' = [returned EXCEPT ![st[s].job_id] = @ + 1]
  /\ UNCHANGED <<jobs, lock, speaker_maps, nextId, cr, wk, recapCalls>>
  /\ UNCHANGED <<submitted, outside>>

\* ---- _run: the background worker ----------------------------------------
\* The places of _run, as values of wk[j].pc:
\*   "p1"        in transcribe_audio, before its report number wk[j].i
\*   "cb"        in progress_cb, holding the lock
\*   "samples"   transcribe_audio returned; get_speaker_samples and the lock
\*   "store"     in the lock block that stores transcript and samples
\*   "wait"      at self._speaker_events[job.id].wait()
\*   "readmap"   at self._speaker_maps.get(job.id, {})
\*   "presave"   before the lock block that sets SAVING;  "saving" inside it
\*   "persist"   apply_speaker_names, save_transcript, save_session_meta
\*   "ifskip"    at "if not job.skip_recap"
\*   "prerecap"  before the lock block that sets GENERATING_RECAP;
\*   "recapset"  inside it;  "recap" at pipeline.generate_recap
\*   "predone"   before the lock block that sets COMPLETED;  "done" inside it
\*   "except"    an exception was raised, before the handler's lock block;
\*   "failing"   inside it;  "exit" the thread has ended

\* the fault places if code after the COMPLETED block could raise as well
FaultPointsLate == {"p1", "samples", "persist", "recap", "exit"}

\* the places where the code between two lock blocks may raise
FaultPoints == {"p1", "samples", "persist", "recap"}

\* the lock block that each place enters
LockBlock ==
  [p \in {"p1", "samples", "presave", "prerecap", "predone", "except"} |->
     CASE p = "p1" -> "cb"
       [] p = "samples" -> "store"
       [] p = "presave" -> "saving"
       [] p = "prerecap" -> "recapset"
       [] p = "predone" -> "done"
       [] p = "except" -> "failing"]

\* a worker thread is live from thread.start() until _run returns
Live(j) == wk[j].pc \notin {"unstarted", "exit"}

\* the worker reaches a "with self._lock:" and gets the lock
WorkerAcquire(j) ==
  /\ wk[j].pc \in DOMAIN LockBlock
  /\ lock = NoThread
  /\ lock' = WorkerThread(j)
  /\ wk' = [wk EXCEPT ![j].pc = LockBlock[wk[j].pc]]
  /\ UNCHANGED <<jobs, speaker_events, speaker_maps, nextId, cr, st,
                 returned, recapCalls>>
  /\ UNCHANGED <<submitted, outside>>

\* a pipeline call raises: control goes to the except clause
WorkerFault(j) ==
  /\ wk[j].pc \in FaultPoints
  /\ wk' = [wk EXCEPT ![j].pc = "except"]
  /\ recapCalls' = [recapCalls EXCEPT ![j] = IF wk[j].pc = "recap" THEN @ + 1 ELSE @]
  /\ UNCHANGED <<jobs, lock, speaker_events, speaker_maps, nextId, cr, st,
                 returned>>
  /\ UNCHANGED <<submitted, outside>>

\* a progress_cb that writes the Job without taking the lock
ProgressCbUnlocked(j, hf_token) ==
  LET r == Reports(hf_token)[wk[j].i] IN
  /\ wk[j].pc = "p1"
  /\ jobs' = [jobs EXCEPT ![j] =
                [@ EXCEPT !.status = StageGet(r.stage, jobs[j].status),
                          !.progress_message = r.message,
                          !.progress_percent = r.percent]]
  /\ wk' = [wk EXCEPT ![j] =
              IF wk[j].i = Len(Reports(hf_token))
                THEN [@ EXCEPT !.pc = "samples"]
                ELSE [@ EXCEPT !.pc = "p1", !.i = wk[j].i + 1]]
  /\ UNCHANGED <<lock, speaker_events, speaker_maps, nextId, cr, st, returned,
                 recapCalls>>
  /\ UNCHANGED <<submitted, outside>>

\* progress_cb(stage, message, percent)
ProgressCb(j, hf_token) ==
  LET r == Reports(hf_token)[wk[j].i] IN
  /\ wk[j].pc = "cb"
  /\ lock = WorkerThread(j)
  /\ lock' = NoThread
  /\ jobs' = [jobs EXCEPT ![j] =
                [@ EXCEPT !.status = StageGet(r.stage, jobs[j].status),
                          !.progress_message = r.message,
                          !.progress_percent = r.percent]]
  /\ wk' = [wk EXCEPT ![j] =
              IF wk[j].i = Len(Reports(hf_token))
                THEN [@ EXCEPT !.pc = "samples"]
                ELSE [@ EXCEPT !.pc = "p1", !.i = wk[j].i + 1]]
  /\ UNCHANGED <<speaker_events, speaker_maps, nextId, cr, st, returned,
                 recapCalls>>
  /\ UNCHANGED <<submitted, outside>>

\* a lock block that is still held while the worker waits
StoreTranscriptHolding(j) ==
  /\ wk[j].pc = "store"
  /\ lock = WorkerThread(j)
  /\ jobs' = [jobs EXCEPT ![j] =
                [@ EXCEPT !.transcript = "transcript",
                          !.speaker_samples = "samples",
                          !.status = AWAITING_SPEAKERS,
                          !.progress_message = "Waiting for speaker identification...",
                          !.progress_percent = 95]]
  /\ wk' = [wk EXCEPT ![j].pc = "wait"]
  /\ UNCHANGED <<lock, speaker_events, speaker_maps, nextId, cr, st, returned,
                 recapCalls>>
  /\ UNCHANGED <<submitted, outside>>

\* a lock block that reports a percent below the one transcription reached
StoreTranscriptAtNinety(j) ==
  /\ wk[j].pc = "store"
  /\ lock = WorkerThread(j)
  /\ lock' = NoThread
  /\ jobs' = [jobs EXCEPT ![j] =
                [@ EXCEPT !.transcript = "transcript",
                          !.speaker_samples = "samples",
                          !.status = AWAITING_SPEAKERS,
                          !.progress_message = "Waiting for speaker identification...",
                          !.progress_percent = 90]]
  /\ wk' = [wk EXCEPT ![j].pc = "wait"]
  /\ UNCHANGED <<speaker_events, speaker_maps, nextId, cr, st, returned,
                 recapCalls>>
  /\ UNCHANGED <<submitted, outside>>

\* the lock block after get_speaker_samples
StoreTranscript(j) ==
  /\ wk[j].pc = "store"
  /\ lock = WorkerThread(j)
  /\ lock' = NoThread
  /\ jobs' = [jobs EXCEPT ![j] =
                [@ EXCEPT !.transcript = "transcript",
                          !.speaker_samples = "samples",
                          !.status = AWAITING_SPEAKERS,
                          !.progress_message = "Waiting for speaker identification...",
                          !.progress_percent = 95]]
  /\ wk' = [wk EXCEPT ![j].pc = "wait"]
  /\ UNCHANGED <<speaker_events, speaker_maps, nextId, cr, st, returned,
                 recapCalls>>
  /\ UNCHANGED <<submitted, outside>>

\* a wait that gives up by itself
WaitTimesOut(j) == TRUE

\* Event.wait() returns once the Event is set
WaitReturns(j) == speaker_events[j]

Wait(j) ==
  /\ wk[j].pc = "wait"
  /\ WaitReturns(j)
  /\ wk' = [wk EXCEPT ![j].pc = "readmap"]
  /\ UNCHANGED <<jobs, lock, speaker_events, speaker_maps, nextId, cr, st,
                 returned, recapCalls>>
  /\ UNCHANGED <<submitted, outside>>

\* speaker_map = self._speaker_maps.get(job.id, {})
ReadMap(j) ==
  /\ wk[j].pc = "readmap"
  /\ wk' = [wk EXCEPT ![j] =
              [@ EXCEPT !.pc = "presave",
                        !.speaker_map = IF j \in DOMAIN speaker_maps
                                          THEN speaker_maps[j] ELSE "empty"]]
  /\ UNCHANGED <<jobs, lock, speaker_events, speaker_maps, nextId, cr, st,
                 returned, recapCalls>>
  /\ UNCHANGED <<submitted, outside>>

\* a lock block that sets SAVING and leaves the percent for later
SavingStatusOnly(j) ==
  /\ wk[j].pc = "saving"
  /\ lock = WorkerThread(j)
  /\ lock' = NoThread
  /\ jobs' = [jobs EXCEPT ![j] =
                [@ EXCEPT !.status = SAVING,
                          !.progress_message = "Saving transcript..."]]
  /\ wk' = [wk EXCEPT ![j].pc = "persist"]
  /\ UNCHANGED <<speaker_events, speaker_maps, nextId, cr, st, returned,
                 recapCalls>>
  /\ UNCHANGED <<submitted, outside>>

\* the lock block that sets SAVING
Saving(j) ==
  /\ wk[j].pc = "saving"
  /\ lock = WorkerThread(j)
  /\ lock' = NoThread
  /\ jobs' = [jobs EXCEPT ![j] =
                [@ EXCEPT !.status = SAVING,
                          !.progress_message = "Saving transcript...",
                          !.progress_percent = 96]]
  /\ wk' = [wk EXCEPT ![j].pc = "persist"]
  /\ UNCHANGED <<speaker_events, speaker_maps, nextId, cr, st, returned,
                 recapCalls>>
  /\ UNCHANGED <<submitted, outside>>

\* apply_speaker_names, save_transcript and save_session_meta return
Persist(j) ==
  /\ wk[j].pc = "persist"
  /\ wk' = [wk EXCEPT ![j].pc = "ifskip"]
  /\ UNCHANGED <<jobs, lock, speaker_events, speaker_maps, nextId, cr, st,
                 returned, recapCalls>>
  /\ UNCHANGED <<submitted, outside>>

\* the test of the flag inverted
SkipRecapInverted(j) == ~jobs[j].skip_recap

\* the value of job.skip_recap that "if not job.skip_recap" reads
SkipRecap(j) == jobs[j].skip_recap

IfSkip(j) ==
  /\ wk[j].pc = "ifskip"
  /\ wk' = [wk EXCEPT ![j].pc = IF SkipRecap(j) THEN "predone" ELSE "prerecap"]
  /\ UNCHANGED <<jobs, lock, speaker_events, speaker_maps, nextId, cr, st,
                 returned, recapCalls>>
  /\ UNCHANGED <<submitted, outside>>

\* the lock block that sets GENERATING_RECAP
RecapSet(j) ==
  /\ wk[j].pc = "recapset"
  /\ lock = WorkerThread(j)
  /\ lock' = NoThread
  /\ jobs' = [jobs EXCEPT ![j] =
                [@ EXCEPT !.status = GENERATING_RECAP,
                          !.progress_message = "Generating recap...",
                          !.progress_percent = 97]]
  /\ wk' = [wk EXCEPT ![j].pc = "recap"]
  /\ UNCHANGED <<speaker_events, speaker_maps, nextId, cr, st, returned,
                 recapCalls>>
  /\ UNCHANGED <<submitted, outside>>

\* pipeline.generate_recap returns
Recap(j) ==
  /\ wk[j].pc = "recap"
  /\ recapCalls' = [recapCalls EXCEPT ![j] = @ + 1]
  /\ wk' = [wk EXCEPT ![j].pc = "predone"]
  /\ UNCHANGED <<jobs, lock, speaker_events, speaker_maps, nextId, cr, st,
                 returned>>
  /\ UNCHANGED <<submitted, outside>>

\* the lock block that sets COMPLETED
Done(j) ==
  /\ wk[j].pc = "done"
  /\ lock = WorkerThread(j)
  /\ lock' = NoThread
  /\ jobs' = [jobs EXCEPT ![j] =
                [@ EXCEPT !.status = COMPLETED,
                          !.progress_message = "Done!",
                          !.progress_percent = 100,
                          !.transcript = None]]
  /\ wk' = [wk EXCEPT ![j].pc = "exit"]
  /\ UNCHANGED <<speaker_events, speaker_maps, nextId, cr, st, returned,
                 recapCalls>>
  /\ UNCHANGED <<submitted, outside>>

\* an except clause that also frees the transcript
FailedJobCleared(job) ==
  [job EXCEPT !.status = FAILED,
              !.error = "Exception",
              !.progress_message = "Failed: Exception",
              !.transcript = None]

\* an except clause that also resets the percent
FailedJobReset(job) ==
  [job EXCEPT !.status = FAILED,
              !.error = "Exception",
              !.progress_message = "Failed: Exception",
              !.progress_percent = 0]

\* an except clause that records no error text
FailedJobNoError(job) ==
  [job EXCEPT !.status = FAILED,
              !.progress_message = "Failed: Exception"]

\* what the except clause writes to the Job
FailedJob(job) ==
  [job EXCEPT !.status = FAILED,
              !.error = "Exception",
              !.progress_message = "Failed: Exception"]

\* the lock block of the except clause
Failing(j) ==
  /\ wk[j].pc = "failing"
  /\ lock = WorkerThread(j)
  /\ lock' = NoThread
  /\ jobs' = [jobs EXCEPT ![j] = FailedJob(jobs[j])]
  /\ wk' = [wk EXCEPT ![j].pc = "exit"]
  /\ UNCHANGED <<speaker_events, speaker_maps, nextId, cr, st, returned,
                 recapCalls>>
  /\ UNCHANGED <<submitted, outside>>

\* ---- the system ---------------------------------------------------------
CreateJob(c) ==
  \/ \E skip_recap \in BOOLEAN : CreateCall(c, skip_recap)
  \/ CreateCheck(c)
  \/ CreateAcquire(c)
  \/ CreateInsert(c)
  \/ CreateStart(c)

SetSpeakerNames(s) ==
  \/ \E job_id \in JobIds, speaker_map \in SpeakerMaps, skip_recap \in BOOLEAN :
       SetCall(s, job_id, speaker_map, skip_recap)
  \/ SetCheck(s)
  \/ SetSignal(s)

Run(j) ==
  \/ WorkerAcquire(j)
  \/ WorkerFault(j)
  \/ \E hf_token \in BOOLEAN : ProgressCb(j, hf_token)
  \/ StoreTranscript(j)
  \/ Wait(j)
  \/ ReadMap(j)
  \/ Saving(j)
  \/ Persist(j)
  \/ IfSkip(j)
  \/ RecapSet(j)
  \/ Recap(j)
  \/ Done(j)
  \/ Failing(j)

Next ==
  \/ \E c \in Creators : CreateJob(c)
  \/ \E s \in Setters : SetSpeakerNames(s)
  \/ \E j \in JobIds : Run(j)

Spec == Init /\ [][Next]_vars

\* ---- web.py: the handlers that call JobManager ---------------------------
\* The handlers are coroutines of one event loop and do not await while they
\* use the JobManager, so a handler runs from its call to its answer before
\* another handler starts; only the worker threads run beside it.

\* self._jobs[job_id]: a lookup that raises for an unknown id
JobsIndex(job_id) == IF job_id \in DOMAIN jobs THEN "Job" ELSE "KeyError"

\* self._jobs.get(job_id): the Job object itself, or None
JobsGet(job_id) == IF job_id \in DOMAIN jobs THEN "Job" ELSE None

\* a handler calls get_job and enters its lock block
GetJobCall(job_id) ==
  /\ rd.pc = "idle"
  /\ lock = NoThread
  /\ lock' = ReaderThread
  /\ rd' = [rd EXCEPT !.pc = "get", !.job_id = job_id]
  /\ web' = [web EXCEPT !.job = 0]
  /\ UNCHANGED <<jobs, speaker_events, speaker_maps, nextId, cr, st, wk,
                 returned, recapCalls, submitted, fx, sse>>

\* get_job: return self._jobs.get(job_id)
GetJob ==
  /\ rd.pc = "get"
  /\ lock = ReaderThread
  /\ lock' = NoThread
  /\ rd' = [rd EXCEPT !.pc = "got", !.job = JobsGet(rd.job_id)]
  /\ UNCHANGED <<jobs, speaker_events, speaker_maps, nextId, cr, st, wk,
                 returned, recapCalls, submitted, web, fx, sse>>

\* the answer of get_job_status for a job that is absent
GetJobStatusMissing(job) == IF job = None THEN 404 ELSE 200

\* "if not job: raise HTTPException(status_code=404)"
JobNotFound ==
  /\ rd.pc = "got"
  /\ rd.job # "Job"
  /\ web' = [web EXCEPT !.job = GetJobStatusMissing(rd.job)]
  /\ rd' = [rd EXCEPT !.pc = "idle", !.job = None]
  /\ UNCHANGED <<jobs, lock, speaker_events, speaker_maps, nextId, cr, st, wk,
                 returned, recapCalls, submitted, fx, sse>>

\* job.status.value, read from the Job that get_job returned
ReadStatus ==
  /\ rd.pc = "got"
  /\ rd.job = "Job"
  /\ rd' = [rd EXCEPT !.pc = "message", !.status = jobs[rd.job_id].status]
  /\ UNCHANGED <<jobs, lock, speaker_events, speaker_maps, nextId, cr, st, wk,
                 returned, recapCalls, submitted, web, fx, sse>>

\* job.progress_message, read next
ReadMessage ==
  /\ rd.pc = "message"
  /\ rd' = [rd EXCEPT !.pc = "percent",
                      !.message = jobs[rd.job_id].progress_message]
  /\ UNCHANGED <<jobs, lock, speaker_events, speaker_maps, nextId, cr, st, wk,
                 returned, recapCalls, submitted, web, fx, sse>>

\* job.progress_percent, read last
ReadPercent ==
  /\ rd.pc = "percent"
  /\ rd' = [rd EXCEPT !.pc = "read",
                      !.percent = jobs[rd.job_id].progress_percent]
  /\ UNCHANGED <<jobs, lock, speaker_events, speaker_maps, nextId, cr, st, wk,
                 returned, recapCalls, submitted, web, fx, sse>>

\* the handler answers with what it read
JobAnswer ==
  /\ rd.pc = "read"
  /\ web' = [web EXCEPT !.job = 200]
  /\ rd' = [rd EXCEPT !.pc = "idle", !.job = None, !.status = None,
                      !.message = None, !.percent = 0]
  /\ UNCHANGED <<jobs, lock, speaker_events, speaker_maps, nextId, cr, st, wk,
                 returned, recapCalls, submitted, fx, sse>>

\* a route create_job that swallows the conflict and redirects anyway
CreateJobRouteSwallowed(result) == 303

\* a list of the jobs that have not finished
JobsValuesRunning == {j \in DOMAIN jobs : jobs[j].status \notin Terminal}

\* list(self._jobs.values()): the Job objects, here by their ids
JobsValues == DOMAIN jobs

\* a caller on the event loop calls list_jobs and enters its lock block
ListJobsCall ==
  /\ rd.pc = "idle"
  /\ lock = NoThread
  /\ lock' = ReaderThread
  /\ rd' = [rd EXCEPT !.pc = "list"]
  /\ UNCHANGED <<jobs, speaker_events, speaker_maps, nextId, cr, st, wk,
                 returned, recapCalls, submitted, web, fx, sse>>

\* list_jobs: return list(self._jobs.values())
ListJobs ==
  /\ rd.pc = "list"
  /\ lock = ReaderThread
  /\ lock' = NoThread
  /\ rd' = [rd EXCEPT !.pc = "listed", !.list = JobsValues]
  /\ UNCHANGED <<jobs, speaker_events, speaker_maps, nextId, cr, st, wk,
                 returned, recapCalls, submitted, web, fx, sse>>

\* the caller drops the list
ListJobsDone ==
  /\ rd.pc = "listed"
  /\ rd' = [rd EXCEPT !.pc = "idle", !.list = {}]
  /\ UNCHANGED <<jobs, lock, speaker_events, speaker_maps, nextId, cr, st, wk,
                 returned, recapCalls, submitted, web, fx, sse>>

\* the route create_job: "except RuntimeError: raise HTTPException(409)",
\* else the redirect to the job page
CreateJobRoute(result) == IF result = "RuntimeError" THEN 409 ELSE 303

CreateJobAnswer(c) ==
  /\ cr[c].pc = "done"
  /\ web.create[c] = 0
  /\ web' = [web EXCEPT !.create[c] = CreateJobRoute(cr[c].result)]
  /\ UNCHANGED <<jobs, lock, speaker_events, speaker_maps, nextId, cr, st, wk,
                 returned, recapCalls, submitted, rd, fx, sse>>

\* the route submit_speaker_names: "except ValueError: raise
\* HTTPException(400)", else {"status": "continuing"}
SubmitSpeakerNamesRoute(result) == IF result = "ValueError" THEN 400 ELSE 200

SubmitSpeakerNamesAnswer(s) ==
  /\ st[s].pc = "done"
  /\ web.speakers[s] = 0
  /\ web' = [web EXCEPT !.speakers[s] = SubmitSpeakerNamesRoute(st[s].result)]
  /\ UNCHANGED <<jobs, lock, speaker_events, speaker_maps, nextId, cr, st, wk,
                 returned, recapCalls, submitted, rd, fx, sse>>

\* the handlers that have started and not yet answered
InHandler ==
  {CreatorThread(c) : c \in {b \in Creators :
       cr[b].pc \notin {"idle", "done"} \/ (cr[b].pc = "done" /\ web.create[b] = 0)}}
  \cup {SetterThread(s) : s \in {t \in Setters :
       st[t].pc \notin {"idle", "done"} \/ (st[t].pc = "done" /\ web.speakers[t] = 0)}}
  \cup (IF rd.pc = "idle" THEN {} ELSE {ReaderThread})
  \cup (IF sse.pc \in {"idle", "wake", "yielded", "closed"}
          THEN {} ELSE {PollerThread})

\* the event loop runs the handler t if no other handler is under way
LoopRuns(t) == InHandler \subseteq {t}

CreateJobHandler(c) ==
  /\ LoopRuns(CreatorThread(c))
  /\ CreateJob(c) \/ CreateJobAnswer(c)

SubmitSpeakerNamesHandler(s) ==
  /\ LoopRuns(SetterThread(s))
  /\ SetSpeakerNames(s) \/ SubmitSpeakerNamesAnswer(s)

GetJobStatusHandler ==
  /\ LoopRuns(ReaderThread)
  /\ \/ \E job_id \in JobIds : GetJobCall(job_id)
     \/ GetJob
     \/ JobNotFound
     \/ ReadStatus
     \/ ReadMessage
     \/ ReadPercent
     \/ JobAnswer

ListJobsCaller ==
  /\ LoopRuns(ReaderThread)
  /\ \/ ListJobsCall
     \/ ListJobs
     \/ ListJobsDone

WebNext ==
  \/ \E c \in Creators : CreateJobHandler(c)
  \/ \E s \in Setters : SubmitSpeakerNamesHandler(s)
  \/ GetJobStatusHandler
  \/ ListJobsCaller
  \/ \E j \in JobIds : Run(j)

WebSpec == Init /\ [][WebNext]_vars

\* ---- web.py: event_generator, the poller behind job_events --------------
\* The places of event_generator, as values of sse.pc:
\*   "wake"      suspended before job_manager.get_job (at the start, or in
\*               asyncio.sleep)
\*   "got"       get_job returned
\*   "message", "percent", "compare"   building and testing "current"
\*   "d_status", "d_message", "d_percent", "emit"   building and sending data
\*   "yielded"   suspended at the yield of the progress event
\*   "l_msg"     last_status is assigned, last_msg is next
\*   "completed" at 'if job.status.value == "completed"'
\*   "failed"    at 'if job.status.value == "failed"'
\*   "closed"    the generator has ended
\* sse.status, sse.message and sse.percent hold "current" up to the test and
\* the entries of data after it; sse.sent_* is the data of the last progress
\* event sent and sse.event the kind of the last event sent.
\* what event_generator only reads
polled == <<jobs, lock, speaker_events, speaker_maps, nextId, cr, st, wk,
             returned, recapCalls, submitted, rd, web, fx>>

\* job_events is requested for a job id and the generator is created
SseOpen(job_id) ==
  /\ sse.pc = "idle"
  /\ sse' = [sse EXCEPT !.pc = "wake", !.job_id = job_id]
  /\ UNCHANGED polled

\* job = job_manager.get_job(job_id): the lock is taken and released
SseGetJob ==
  /\ sse.pc = "wake"
  /\ lock = NoThread
  /\ sse' = [sse EXCEPT !.pc = "got", !.job = JobsGet(sse.job_id)]
  /\ UNCHANGED polled

\* "if not job": the error event, and break
SseNotFound ==
  /\ sse.pc = "got"
  /\ sse.job = None
  /\ sse' = [sse EXCEPT !.pc = "closed", !.event = "error"]
  /\ UNCHANGED polled

\* current = (job.status.value, ...
SseReadStatus ==
  /\ sse.pc = "got"
  /\ sse.job = "Job"
  /\ sse' = [sse EXCEPT !.pc = "message", !.status = jobs[sse.job_id].status]
  /\ UNCHANGED polled

\* ... job.progress_message, ...
SseReadMessage ==
  /\ sse.pc = "message"
  /\ sse' = [sse EXCEPT !.pc = "percent",
                        !.message = jobs[sse.job_id].progress_message]
  /\ UNCHANGED polled

\* ... job.progress_percent)
SseReadPercent ==
  /\ sse.pc = "percent"
  /\ sse' = [sse EXCEPT !.pc = "compare",
                        !.percent = jobs[sse.job_id].progress_percent]
  /\ UNCHANGED polled

\* current != (last_status, last_msg, None); the None in the place of the
\* percent is written -1, which like None is equal to no percent
Changed(current, last_status, last_msg) ==
  current # <<last_status, last_msg, -1>>

SseCompare ==
  /\ sse.pc = "compare"
  /\ sse' = [sse EXCEPT
       !.pc = IF Changed(<<sse.status, sse.message, sse.percent>>,
                         sse.last_status, sse.last_msg)
                THEN "d_status" ELSE "completed",
       !.status = None, !.message = None, !.percent = 0]
  /\ UNCHANGED polled

\* data = {"status": job.status.value, ...
SseDataStatus ==
  /\ sse.pc = "d_status"
  /\ sse' = [sse EXCEPT !.pc = "d_message", !.status = jobs[sse.job_id].status]
  /\ UNCHANGED polled

\* ... "message": job.progress_message, ...
SseDataMessage ==
  /\ sse.pc = "d_message"
  /\ sse' = [sse EXCEPT !.pc = "d_percent",
                        !.message = jobs[sse.job_id].progress_message]
  /\ UNCHANGED polled

\* ... "percent": job.progress_percent}
SseDataPercent ==
  /\ sse.pc = "d_percent"
  /\ sse' = [sse EXCEPT !.pc = "emit",
                        !.percent = jobs[sse.job_id].progress_percent]
  /\ UNCHANGED polled

\* yield {"event": "progress", "data": json.dumps(data)}
SseEmit ==
  /\ sse.pc = "emit"
  /\ sse' = [sse EXCEPT !.pc = "yielded", !.event = "progress",
                        !.sent_status = sse.status, !.sent_msg = sse.message,
                        !.sent_percent = sse.percent,
                        !.status = None, !.message = None, !.percent = 0]
  /\ UNCHANGED polled

\* last_status = job.status.value, when the generator is resumed
SseLastStatus ==
  /\ sse.pc = "yielded"
  /\ sse' = [sse EXCEPT !.pc = "l_msg", !.last_status = jobs[sse.job_id].status]
  /\ UNCHANGED polled

\* last_msg = job.progress_message
SseLastMsg ==
  /\ sse.pc = "l_msg"
  /\ sse' = [sse EXCEPT !.pc = "completed",
                        !.last_msg = jobs[sse.job_id].progress_message]
  /\ UNCHANGED polled

\* if job.status.value == "completed": the completed event, and break
SseIfCompleted ==
  /\ sse.pc = "completed"
  /\ sse' = IF jobs[sse.job_id].status = COMPLETED
              THEN [sse EXCEPT !.pc = "closed", !.event = "completed"]
              ELSE [sse EXCEPT !.pc = "failed"]
  /\ UNCHANGED polled

\* a test for "failed" that sends the event and goes on polling
SseIfFailedGoesOn ==
  /\ sse.pc = "failed"
  /\ sse' = IF jobs[sse.job_id].status = FAILED
              THEN [sse EXCEPT !.pc = "wake", !.event = "failed"]
              ELSE [sse EXCEPT !.pc = "wake"]
  /\ UNCHANGED polled

\* if job.status.value == "failed": the failed event, and break; else
\* await asyncio.sleep(0.5)
SseIfFailed ==
  /\ sse.pc = "failed"
  /\ sse' = IF jobs[sse.job_id].status = FAILED
              THEN [sse EXCEPT !.pc = "closed", !.event = "failed"]
              ELSE [sse EXCEPT !.pc = "wake"]
  /\ UNCHANGED polled

\* the poller runs on the event loop between two of its awaits
JobEvents ==
  /\ LoopRuns(PollerThread)
  /\ \/ \E job_id \in JobIds : SseOpen(job_id)
     \/ SseGetJob
     \/ SseNotFound
     \/ SseReadStatus
     \/ SseReadMessage
     \/ SseReadPercent
     \/ SseCompare
     \/ SseDataStatus
     \/ SseDataMessage
     \/ SseDataPercent
     \/ SseEmit
     \/ SseLastStatus
     \/ SseLastMsg
     \/ SseIfCompleted
     \/ SseIfFailed

\* One upload, one submission of names and one event stream beside the
\* worker threads.
SseNext ==
  \/ \E c \in Creators : c = 1 /\ CreateJobHandler(c)
  \/ \E s \in Setters : s = 1 /\ SubmitSpeakerNamesHandler(s)
  \/ JobEvents
  \/ \E j \in JobIds : Run(j)

SseSpec == Init /\ [][SseNext]_vars

\* The scheduling the threads get: a thread inside a lock block leaves it, a
\* started worker keeps running, and a call that recorded its names goes on
\* to set the Event.
Fairness ==
  /\ \A j \in JobIds : WF_vars(Run(j))
  /\ \A c \in Creators : WF_vars(CreateCheck(c) \/ CreateInsert(c))
  /\ \A s \in Setters : WF_vars(SetCheck(s))

FairSpec == Spec /\ Fairness

\* ---- pipeline.py: get_speaker_samples and apply_speaker_names ------------
\* A text is its leading whitespace and what strip() leaves of it, by length.
Texts == {[lead |-> 1, body |-> 15], [lead |-> 0, body |-> 16]}
Labels == {"SPEAKER_00", "SPEAKER_01"}

\* a segment without the key "speaker" has speaker None
SegmentKinds == [speaker : Labels \cup {None}, text : Texts]

\* the transcripts of at most MaxSegs segments, each one second long
Transcripts ==
  {[segments |-> [i \in DOMAIN k |->
                    [speaker |-> k[i].speaker, text |-> k[i].text,
                     start |-> i, end |-> i + 1]]] :
     k \in UNION {[1..n -> SegmentKinds] : n \in 0..MaxSegs}}

\* the speaker maps a user may submit, the empty one included
NameMaps ==
  UNION {[d -> {"DM", "Aria"}] : d \in SUBSET {"SPEAKER_00", "UNKNOWN"}}

\* num_samples: the default 8 and two smaller ones; for these powers of two
\* the float len(segments) / num_samples is exact
NumSamples == {1, 2, 8}

\* text.strip() and len(text)
Strip(text) == [text EXCEPT !.lead = 0]
TextLen(text) == text.lead + text.body

\* seg.get("speaker", "UNKNOWN")
SpeakerOf(seg) == IF seg.speaker = None THEN "UNKNOWN" ELSE seg.speaker

\* the keys of speaker_total_count, in the order the loop first meets them
RECURSIVE SpeakerIds(_)
SpeakerIds(segments) ==
  IF segments = <<>> THEN <<>>
  ELSE LET before == SpeakerIds(SubSeq(segments, 1, Len(segments) - 1))
           speaker_id == SpeakerOf(segments[Len(segments)])
       IN IF \E i \in DOMAIN before : before[i] = speaker_id
            THEN before
            ELSE Append(before, speaker_id)

\* a count that leaves out the segments too short to be a sample
LongCount(segments, speaker_id) ==
  Cardinality({i \in DOMAIN segments :
                 /\ SpeakerOf(segments[i]) = speaker_id
                 /\ TextLen(Strip(segments[i].text)) > 15})

\* speaker_total_count[speaker_id]
TotalCount(segments, speaker_id) ==
  Cardinality({i \in DOMAIN segments : SpeakerOf(segments[i]) = speaker_id})

\* speaker_segments[speaker_id]: the segments with len(text) > 15
SpeakerSegments(segments, speaker_id) ==
  LET Long(seg) == /\ SpeakerOf(seg) = speaker_id
                   /\ TextLen(Strip(seg.text)) > 15
  IN SelectSeq(segments, Long)

\* indices, counted from 0: all of them, or int(i * step) for i < num_samples
Indices(n, num_samples) ==
  IF n <= num_samples
    THEN [i \in 1..n |-> i - 1]
    ELSE [i \in 1..num_samples |-> ((i - 1) * n) \div num_samples]

\* result[speaker_id]
SampleEntry(segments, speaker_id, num_samples) ==
  LET long == SpeakerSegments(segments, speaker_id)
      indices == Indices(Len(long), num_samples)
  IN [speaker |-> speaker_id,
      count |-> TotalCount(segments, speaker_id),
      samples |-> [k \in DOMAIN indices |->
                     [start |-> long[indices[k] + 1].start,
                      text |-> Strip(long[indices[k] + 1].text)]]]

\* sorted(..., key=count, reverse=True): stable, equal counts keep their order
InsertByCount(sorted, entry) ==
  LET k == Cardinality({i \in DOMAIN sorted : sorted[i].count >= entry.count})
  IN SubSeq(sorted, 1, k) \o <<entry>> \o SubSeq(sorted, k + 1, Len(sorted))

RECURSIVE SortedByCount(_)
SortedByCount(entries) ==
  IF entries = <<>> THEN <<>>
  ELSE InsertByCount(SortedByCount(SubSeq(entries, 1, Len(entries) - 1)),
                     entries[Len(entries)])

\* get_speaker_samples(transcript, num_samples): the dict as its items in order
get_speaker_samples(transcript, num_samples) ==
  LET ids == SpeakerIds(transcript.segments)
  IN SortedByCount([i \in DOMAIN ids |->
                      SampleEntry(transcript.segments, ids[i], num_samples)])

\* a lookup that falls back to the anonymous label "UNKNOWN"
SpeakerNameUnknown(speaker_map, speaker_id) ==
  IF speaker_id \in DOMAIN speaker_map THEN speaker_map[speaker_id] ELSE "UNKNOWN"

\* speaker_map.get(speaker_id, speaker_id)
SpeakerName(speaker_map, speaker_id) ==
  IF speaker_id \in DOMAIN speaker_map THEN speaker_map[speaker_id] ELSE speaker_id

\* apply_speaker_names(transcript, speaker_map)
apply_speaker_names(transcript, speaker_map) ==
  [segments |-> [i \in DOMAIN transcript.segments |->
     LET segment == transcript.segments[i] IN
     [speaker |-> segment.speaker, text |-> segment.text,
      start |-> segment.start, end |-> segment.end,
      speaker_name |-> SpeakerName(speaker_map, SpeakerOf(segment))]]]

\* the body of progress_cb(stage, message, percent) on the worker's Job
progress_cb(job, stage, message, percent) ==
  [job EXCEPT !.status = StageGet(stage, job.status),
              !.progress_message = message,
              !.progress_percent = percent]

\* the stage names transcribe_audio reports, and one that no table knows
Stages == DOMAIN STAGE_MAP \cup {"vad_filtering"}

\* the calls of progress_cb, on a Job in any state
ProgressCalls ==
  {[NoCall EXCEPT !.pc = "call", !.fn = "progress_cb",
                  !.job = [Job(FALSE) EXCEPT !.status = JobStatus[k]],
                  !.stage = stage, !.message = "Working...", !.percent = n] :
     k \in DOMAIN JobStatus, stage \in Stages, n \in {5, 50}}

\* the calls of the two functions, before they run
FnCalls ==
  {[NoCall EXCEPT !.pc = "call", !.fn = "get_speaker_samples",
                  !.transcript = t, !.num_samples = n] :
     t \in Transcripts, n \in NumSamples}
  \cup {[NoCall EXCEPT !.pc = "call", !.fn = "apply_speaker_names",
                       !.transcript = t, !.speaker_map = m] :
          t \in Transcripts, m \in NameMaps}

FnInit ==
  /\ Constructed
  /\ fx \in FnCalls \cup ProgressCalls

GetSpeakerSamples ==
  /\ fx.pc = "call"
  /\ fx.fn = "get_speaker_samples"
  /\ fx' = [fx EXCEPT !.pc = "return",
                      !.result = get_speaker_samples(fx.transcript, fx.num_samples)]
  /\ UNCHANGED <<jobs, lock, speaker_events, speaker_maps, nextId, cr, st, wk,
                 returned, recapCalls, submitted, rd, web, sse>>

ApplySpeakerNames ==
  /\ fx.pc = "call"
  /\ fx.fn = "apply_speaker_names"
  /\ fx' = [fx EXCEPT !.pc = "return",
                      !.result = apply_speaker_names(fx.transcript, fx.speaker_map)]
  /\ UNCHANGED <<jobs, lock, speaker_events, speaker_maps, nextId, cr, st, wk,
                 returned, recapCalls, submitted, rd, web, sse>>

ProgressCall ==
  /\ fx.pc = "call"
  /\ fx.fn = "progress_cb"
  /\ fx' = [fx EXCEPT !.pc = "return",
                      !.job = progress_cb(fx.job, fx.stage, fx.message, fx.percent)]
  /\ UNCHANGED <<jobs, lock, speaker_events, speaker_maps, nextId, cr, st, wk,
                 returned, recapCalls, submitted, rd, web, sse>>

FnNext == GetSpeakerSamples \/ ApplySpeakerNames \/ ProgressCall

FnSpec == FnInit /\ [][FnNext]_vars

\* ---- properties ---------------------------------------------------------
\* the place of a status in the order of the JobStatus enumeration
Rank(status) == CHOOSE i \in 1..Len(JobStatus) : JobStatus[i] = status

NonTerminal ==
  {QUEUED, LOADING_MODEL, LOADING_AUDIO, TRANSCRIBING, ALIGNING, DIARIZING,
   AWAITING_SPEAKERS, SAVING, GENERATING_RECAP}

\* C1: at any time at most one job has a status other than COMPLETED or
\* FAILED and at most one worker thread is live, whatever the interleaving of
\* the create_job calls.
C1_SingleFlight ==
  /\ Cardinality({j \in DOMAIN jobs : jobs[j].status \in NonTerminal}) <= 1
  /\ Cardinality({j \in JobIds : Live(j)}) <= 1

\* C2: a create_job call that makes its admission check while some job is
\* non-terminal and no other create_job call is in flight raises the conflict
\* error, and neither the job table, the events, the speaker maps nor the
\* workers change.
C2_ConflictRejected ==
  [][\A c \in Creators :
       ( /\ cr[c].pc = "check"
         /\ cr'[c].pc # "check"
         /\ \A b \in Creators \ {c} : cr[b].pc \in {"idle", "done"}
         /\ \E j \in DOMAIN jobs : jobs[j].status \in NonTerminal )
       => /\ cr'[c].pc = "done"
          /\ cr'[c].result = "RuntimeError"
          /\ UNCHANGED <<jobs, speaker_events, speaker_maps, wk, nextId>>]_vars

C2_Witness ==
  \E c \in Creators :
    /\ cr[c].result = "RuntimeError"
    /\ \A b \in Creators \ {c} : cr[b].pc = "done" /\ cr[b].result = "ok"
    /\ \E j \in DOMAIN jobs : jobs[j].status = AWAITING_SPEAKERS

\* C3: every change of a job's status goes to a state later in the order
\* QUEUED .. COMPLETED or to FAILED.
C3_StatusForward ==
  [][\A j \in DOMAIN jobs :
       jobs'[j].status # jobs[j].status
       => \/ jobs'[j].status = FAILED
          \/ /\ jobs'[j].status # FAILED
             /\ jobs[j].status # FAILED
             /\ Rank(jobs'[j].status) > Rank(jobs[j].status)]_vars

C3_Witness ==
  \E j \in DOMAIN jobs : jobs[j].status = COMPLETED /\ recapCalls[j] = 1

\* C4: once a job's status is COMPLETED or FAILED, no step changes it.
C4_TerminalAbsorbing ==
  [][\A j \in DOMAIN jobs :
       jobs[j].status \in {COMPLETED, FAILED}
       => jobs'[j].status = jobs[j].status]_vars

C4_Witness ==
  \E s \in Setters, j \in DOMAIN jobs :
    /\ jobs[j].status \in {COMPLETED, FAILED}
    /\ st[s].job_id = j
    /\ st[s].pc = "check"

\* C5: for every job at most one set_speaker_names call returns successfully.
C5_SucceedsOnce == \A j \in JobIds : returned[j] <= 1

\* C6: a set_speaker_names call for a job id that is not in the table, or for
\* a job whose status is not AWAITING_SPEAKERS, raises the invalid-state error
\* and leaves the speaker maps, the jobs and the events as they were.
C6_InvalidRejected ==
  [][\A s \in Setters :
       ( /\ st[s].pc = "check"
         /\ st'[s].pc # "check"
         /\ \/ st[s].job_id \notin DOMAIN jobs
            \/ jobs[st[s].job_id].status # AWAITING_SPEAKERS )
       => /\ st'[s].pc = "done"
          /\ st'[s].result = "ValueError"
          /\ UNCHANGED <<jobs, speaker_maps, speaker_events>>]_vars

C6_Witness ==
  \E s, t \in Setters :
    /\ st[s].result = "ValueError"
    /\ st[s].job_id \notin DOMAIN jobs
    /\ st[t].result = "ValueError"
    /\ st[t].job_id \in DOMAIN jobs
    /\ jobs[st[t].job_id].status = QUEUED

\* C7: a job is SAVING, GENERATING_RECAP or COMPLETED only after a
\* set_speaker_names call for it has returned, and a worker at the checkpoint
\* wait stays there, with the job AWAITING_SPEAKERS, as long as none has.
C7_CheckpointOrder ==
  /\ [](\A j \in DOMAIN jobs :
          jobs[j].status \in {SAVING, GENERATING_RECAP, COMPLETED}
          => returned[j] >= 1)
  /\ [][\A j \in JobIds :
          (wk[j].pc = "wait" /\ returned[j] = 0)
          => /\ wk'[j].pc = "wait"
             /\ jobs'[j].status = AWAITING_SPEAKERS]_vars

C7_Witness ==
  \E j \in DOMAIN jobs : jobs[j].status = SAVING /\ returned[j] >= 1

\* C8: once a set_speaker_names call has returned for a job, the job
\* eventually is COMPLETED or FAILED.
C8_NoLostWakeup ==
  \A j \in JobIds :
    (returned[j] >= 1)
      ~> (j \in DOMAIN jobs /\ jobs[j].status \in {COMPLETED, FAILED})

\* the call returned before the worker began to wait
C8_Witness ==
  \E j \in JobIds : returned[j] >= 1 /\ wk[j].pc \in {"samples", "store"}

\* C9: progress_percent stays within 0..100 and never decreases, the step
\* into FAILED included.
C9_PercentMonotone ==
  /\ [](\A j \in DOMAIN jobs : jobs[j].progress_percent \in 0..100)
  /\ [][\A j \in DOMAIN jobs :
          jobs'[j].progress_percent >= jobs[j].progress_percent]_vars

C9_Witness ==
  \E j \in DOMAIN jobs : jobs[j].status = FAILED /\ jobs[j].progress_percent = 96

\* C10: with the flag set on entering SAVING the job goes from SAVING to
\* COMPLETED or FAILED, is never GENERATING_RECAP and generate_recap is never
\* called; with the flag not set it goes from SAVING to GENERATING_RECAP (or
\* FAILED) and generate_recap has been called before it is COMPLETED.  The
\* flag does not change once the job has left AWAITING_SPEAKERS.
C10_RecapSkipping ==
  /\ [](\A j \in DOMAIN jobs :
          /\ recapCalls[j] > 0 => ~jobs[j].skip_recap
          /\ jobs[j].status = GENERATING_RECAP => ~jobs[j].skip_recap
          /\ (jobs[j].status = COMPLETED /\ ~jobs[j].skip_recap)
             => recapCalls[j] >= 1)
  /\ [][\A j \in DOMAIN jobs :
          /\ jobs[j].status \in {SAVING, GENERATING_RECAP, COMPLETED, FAILED}
             => jobs'[j].skip_recap = jobs[j].skip_recap
          /\ (jobs[j].status = SAVING /\ jobs[j].skip_recap)
             => jobs'[j].status \in {SAVING, COMPLETED, FAILED}
          /\ (jobs[j].status = SAVING /\ ~jobs[j].skip_recap)
             => jobs'[j].status \in {SAVING, GENERATING_RECAP, FAILED}
          /\ (jobs'[j].status = COMPLETED /\ jobs[j].status # COMPLETED)
             => jobs[j].status \in {SAVING, GENERATING_RECAP}]_vars

C10_Witness ==
  \E j \in DOMAIN jobs :
    jobs[j].status = COMPLETED /\ jobs[j].skip_recap /\ recapCalls[j] = 0

\* C11: a fault of a pipeline call only moves the worker to its except
\* clause; the job becomes FAILED in one step made under the lock, with an
\* error text and a "Failed: ..." message, and the create_job call that
\* started the worker has returned its job id and is not touched.
C11_FaultCaught ==
  /\ [](\A j \in DOMAIN jobs :
          /\ jobs[j].status = FAILED
             => /\ jobs[j].error # None
                /\ jobs[j].progress_message = "Failed: Exception"
          /\ wk[j].pc \in {"except", "failing", "exit"}
             => \E c \in Creators :
                  cr[c].job_id = j /\ cr[c].pc = "done" /\ cr[c].result = "ok")
  /\ [][\A j \in DOMAIN jobs :
          /\ (wk[j].pc \in {"p1", "samples", "persist", "recap"}
              /\ wk'[j].pc \notin {wk[j].pc, "cb", "store", "ifskip", "predone"})
             => wk'[j].pc = "except" /\ cr' = cr /\ jobs' = jobs
          /\ wk[j].pc = "except" => wk'[j].pc \in {"except", "failing"}
          /\ (wk[j].pc = "failing" /\ wk'[j].pc # "failing")
             => wk'[j].pc = "exit" /\ jobs'[j].status = FAILED
          /\ (jobs'[j].status = FAILED /\ jobs[j].status # FAILED)
             => /\ lock = WorkerThread(j)
                /\ wk[j].pc = "failing"
                /\ cr' = cr]_vars

C11_Witness ==
  \E j \in DOMAIN jobs :
    /\ jobs[j].status = FAILED
    /\ jobs[j].error # None
    /\ jobs[j].transcript # None
    /\ \E c \in Creators : cr[c].job_id = j /\ cr[c].result = "ok"

\* C12: a create_job call that makes its admission check while every job in
\* the table is COMPLETED or FAILED is admitted; the admitted call then adds
\* its job in QUEUED and starts its worker.
C12_NotBlocked ==
  [][\A c \in Creators :
       /\ ( /\ cr[c].pc = "check"
            /\ cr'[c].pc # "check"
            /\ \A j \in DOMAIN jobs : jobs[j].status \in {COMPLETED, FAILED} )
          => cr'[c].pc = "built" /\ cr'[c].result # "RuntimeError"
       /\ cr[c].pc = "built" => cr'[c].pc \in {"built", "insert"}
       /\ (cr[c].pc = "insert" /\ cr'[c].pc # "insert")
          => /\ cr'[c].pc = "start"
             /\ DOMAIN jobs' = DOMAIN jobs \cup {cr[c].job_id}
             /\ jobs'[cr[c].job_id].status = QUEUED
       /\ (cr[c].pc = "start" /\ cr'[c].pc # "start")
          => /\ cr'[c].pc = "done"
             /\ cr'[c].result = "ok"
             /\ wk[cr[c].job_id].pc = "unstarted"
             /\ wk'[cr[c].job_id].pc = "p1"]_vars

\* a call holds the lock for its admission check and the only job has FAILED
C12_Witness ==
  \E c \in Creators :
    /\ cr[c].pc = "check"
    /\ DOMAIN jobs # {}
    /\ \A j \in DOMAIN jobs : jobs[j].status = FAILED /\ jobs[j].transcript = None

\* C14: whenever a job is AWAITING_SPEAKERS its transcript and its speaker
\* samples are stored on the Job.
C14_SamplesStored ==
  \A j \in DOMAIN jobs :
    jobs[j].status = AWAITING_SPEAKERS
    => jobs[j].transcript # None /\ jobs[j].speaker_samples # None

\* C19: the speaker map the worker took for phase 2 and the skip_recap value
\* it used at "if not job.skip_recap" were recorded together by one
\* set_speaker_names call.
C19_SameSubmission ==
  \A j \in DOMAIN jobs :
    wk[j].pc \in {"prerecap", "recapset", "recap", "predone", "done"}
    => <<wk[j].speaker_map, jobs[j].skip_recap>> \in submitted[j]

HeldTriples ==
  {<<QUEUED, "", 0>>}
  \cup {<<StageGet(Reports(h)[i].stage, TRANSCRIBING), Reports(h)[i].message,
          Reports(h)[i].percent>> : h \in BOOLEAN, i \in 1..Len(Reports(TRUE))}
  \cup {<<AWAITING_SPEAKERS, "Waiting for speaker identification...", 95>>,
        <<SAVING, "Saving transcript...", 96>>,
        <<GENERATING_RECAP, "Generating recap...", 97>>,
        <<COMPLETED, "Done!", 100>>}
  \cup {<<FAILED, "Failed: Exception", p>> : p \in 0..100}

\* C13: the (status, progress_message, progress_percent) a caller reads from
\* the record get_job returned is a triple the record held at one instant: it
\* reads a snapshot, never a record in the middle of later worker updates.
C13_Snapshot ==
  rd.pc = "read" => <<rd.status, rd.message, rd.percent>> \in HeldTriples

\* C15: get_job is a pure read. Its steps leave the job table, every Job, the
\* speaker maps and the checkpoint signals unchanged, and it returns None for
\* an id that is not in the table and the Job for an id that is.
C15_PureRead ==
  [][/\ (rd.pc \in {"idle", "get"} /\ rd' # rd)
          => /\ jobs' = jobs
             /\ speaker_maps' = speaker_maps
             /\ speaker_events' = speaker_events
     /\ (rd.pc = "get" /\ rd' # rd)
          => /\ rd'.pc = "got"
             /\ rd.job_id \notin DOMAIN jobs => rd'.job = None
             /\ rd.job_id \in DOMAIN jobs => rd'.job = "Job"]_vars

C15_Witness ==
  /\ rd.pc = "got"
  /\ rd.job = None
  /\ DOMAIN jobs # {}
  /\ rd.job_id \notin DOMAIN jobs

\* C17: every answer of the web layer shows the scheduler's condition: 409
\* exactly for the conflict of create_job, 400 exactly for the invalid-state
\* error of set_speaker_names, 404 exactly for an absent get_job result, and
\* a success answer (303, 200) only when there was no error.
C17_ErrorsMapped ==
  /\ [](/\ \A c \in Creators : web.create[c] # 0 =>
             /\ cr[c].pc = "done"
             /\ web.create[c] = 409 <=> cr[c].result = "RuntimeError"
             /\ web.create[c] = 303 <=> cr[c].result = "ok"
        /\ \A s \in Setters : web.speakers[s] # 0 =>
             /\ st[s].pc = "done"
             /\ web.speakers[s] = 400 <=> st[s].result = "ValueError"
             /\ web.speakers[s] = 200 <=> st[s].result = "ok")
  /\ [][(web'.job # web.job /\ web'.job # 0) =>
          /\ rd.pc \in {"got", "read"}
          /\ web'.job = 404 <=> rd.job = None
          /\ web'.job = 200 <=> rd.job = "Job"]_vars

C17_Witness ==
  /\ \E c \in Creators : web.create[c] = 409
  /\ \E s \in Setters : web.speakers[s] = 400
  /\ web.job = 404

\* C16: apply_speaker_names gives every segment the speaker_name its label
\* has in the map, or the label itself when the map has no entry for it (the
\* label of a segment without one being "UNKNOWN"), and leaves the number of
\* segments and each segment's speaker, text and times as they were.
C16_NamesApplied ==
  (fx.pc = "return" /\ fx.fn = "apply_speaker_names") =>
    /\ DOMAIN fx.result.segments = DOMAIN fx.transcript.segments
    /\ \A i \in DOMAIN fx.transcript.segments :
         LET old == fx.transcript.segments[i]
             new == fx.result.segments[i]
             label == IF old.speaker = None THEN "UNKNOWN" ELSE old.speaker
         IN /\ new.speaker_name = IF label \in DOMAIN fx.speaker_map
                                    THEN fx.speaker_map[label]
                                    ELSE label
            /\ new.speaker = old.speaker
            /\ new.text = old.text
            /\ new.start = old.start
            /\ new.end = old.end

C16_Witness ==
  /\ fx.pc = "return"
  /\ fx.fn = "apply_speaker_names"
  /\ \E i, k \in DOMAIN fx.result.segments :
       /\ fx.result.segments[i].speaker_name = "DM"
       /\ fx.result.segments[k].speaker_name = "SPEAKER_01"

\* C18: get_speaker_samples has one entry for each speaker label of the
\* transcript and no other; an entry's count is the number of all segments
\* with its label; its samples are at most num_samples, are segments of that
\* label and follow the transcript's order; the entries are in descending
\* order of count.
C18_SamplesShape ==
  (fx.pc = "return" /\ fx.fn = "get_speaker_samples") =>
    LET segments == fx.transcript.segments
        Label(seg) == IF seg.speaker = None THEN "UNKNOWN" ELSE seg.speaker
    IN /\ {fx.result[e].speaker : e \in DOMAIN fx.result}
            = {Label(segments[i]) : i \in DOMAIN segments}
       /\ \A e, f \in DOMAIN fx.result :
            /\ fx.result[e].speaker = fx.result[f].speaker => e = f
            /\ e < f => fx.result[e].count >= fx.result[f].count
       /\ \A e \in DOMAIN fx.result :
            LET entry == fx.result[e] IN
            /\ entry.count = Cardinality({i \in DOMAIN segments :
                                            Label(segments[i]) = entry.speaker})
            /\ Len(entry.samples) <= fx.num_samples
            /\ \A k \in DOMAIN entry.samples :
                 \E i \in DOMAIN segments :
                   /\ segments[i].start = entry.samples[k].start
                   /\ Label(segments[i]) = entry.speaker
            /\ \A k, m \in DOMAIN entry.samples :
                 k < m => entry.samples[k].start < entry.samples[m].start

C18_Witness ==
  /\ fx.pc = "return"
  /\ fx.fn = "get_speaker_samples"
  /\ Len(fx.result) = 2
  /\ fx.result[1].speaker # SpeakerOf(fx.transcript.segments[1])
  /\ fx.result[1].count = 2
  /\ Len(fx.result[1].samples) = 1
  /\ fx.result[2].samples = <<>>

\* C22: a progress report with a stage of the lookup table sets the status
\* to the state the table gives for it; a report with any other stage leaves
\* the status as it was and raises nothing; both set the message and the
\* percent, and change no other field of the Job.
C22_StageLookup ==
  [][(fx.pc = "call" /\ fx.fn = "progress_cb" /\ fx' # fx) =>
       /\ fx'.pc = "return"
       /\ fx.stage = "loading_model" => fx'.job.status = LOADING_MODEL
       /\ fx.stage = "loading_audio" => fx'.job.status = LOADING_AUDIO
       /\ fx.stage = "transcribing" => fx'.job.status = TRANSCRIBING
       /\ fx.stage = "aligning" => fx'.job.status = ALIGNING
       /\ fx.stage = "diarizing" => fx'.job.status = DIARIZING
       /\ fx.stage = "done_transcription" => fx'.job.status = AWAITING_SPEAKERS
       /\ fx.stage \notin {"loading_model", "loading_audio", "transcribing",
                           "aligning", "diarizing", "done_transcription"}
            => fx'.job.status = fx.job.status
       /\ fx'.job.progress_message = fx.message
       /\ fx'.job.progress_percent = fx.percent
       /\ fx'.job = [fx.job EXCEPT !.status = fx'.job.status,
                                   !.progress_message = fx.message,
                                   !.progress_percent = fx.percent]]_vars

C22_Witness ==
  /\ fx.pc = "return"
  /\ fx.fn = "progress_cb"
  /\ fx.stage = "vad_filtering"
  /\ fx.job.status = ALIGNING
  /\ fx.job.progress_percent = 50

\* C23: a job holds a transcript only while its status is AWAITING_SPEAKERS,
\* SAVING or GENERATING_RECAP; before that and in the terminal states
\* COMPLETED and FAILED the transcript is None.
C23_TranscriptWhileNeeded ==
  \A j \in DOMAIN jobs :
    jobs[j].transcript # None
      => jobs[j].status \in {AWAITING_SPEAKERS, SAVING, GENERATING_RECAP}

\* C28: status, message and percent of phase 2 go together: SAVING with
\* "Saving transcript..." and 96, GENERATING_RECAP with "Generating recap..."
\* and 97, COMPLETED with "Done!" and 100.
C28_PhaseTwoTogether ==
  \A j \in DOMAIN jobs :
    /\ jobs[j].status = SAVING
         => /\ jobs[j].progress_message = "Saving transcript..."
            /\ jobs[j].progress_percent = 96
    /\ jobs[j].status = GENERATING_RECAP
         => /\ jobs[j].progress_message = "Generating recap..."
            /\ jobs[j].progress_percent = 97
    /\ jobs[j].status = COMPLETED
         => /\ jobs[j].progress_message = "Done!"
            /\ jobs[j].progress_percent = 100

C28_Witness ==
  \E j \in DOMAIN jobs :
    /\ jobs[j].status = GENERATING_RECAP
    /\ \E k \in DOMAIN jobs : jobs[k].status = COMPLETED

\* C29: the skip_recap given to create_job does not reach phase 2. A
\* submission that is accepted replaces the flag whatever it was and changes
\* nothing else of the Job, nothing but an accepted submission changes the
\* flag, and the branch after saving follows the flag of the record, which
\* for a worker past the checkpoint is the flag of a submission.
C29_CreationFlagOverwritten ==
  /\ [](\A j \in DOMAIN jobs :
          wk[j].pc \in {"readmap", "presave", "saving", "persist", "ifskip",
                        "prerecap", "recapset", "recap", "predone", "done"}
            => \E p \in submitted[j] : jobs[j].skip_recap = p[2])
  /\ [][/\ \A s \in Setters :
             (st[s].pc = "check" /\ st'[s].pc = "signal")
               => jobs' = [jobs EXCEPT ![st[s].job_id].skip_recap =
                                          st[s].skip_recap]
        /\ \A j \in DOMAIN jobs :
             /\ jobs'[j].skip_recap # jobs[j].skip_recap
                  => \E s \in Setters : /\ st[s].pc = "check"
                                        /\ st'[s].pc = "signal"
                                        /\ st[s].job_id = j
             /\ (wk[j].pc = "ifskip" /\ wk'[j].pc # "ifskip")
                  => wk'[j].pc = IF jobs[j].skip_recap THEN "predone"
                                                       ELSE "prerecap"]_vars

\* a submission without skip_recap is in its lock block, about to be
\* accepted, for a job that was created with skip_recap
C29_Witness ==
  \E s \in Setters :
    /\ st[s].pc = "check"
    /\ st[s].job_id \in DOMAIN jobs
    /\ jobs[st[s].job_id].status = AWAITING_SPEAKERS
    /\ submitted[st[s].job_id] = {}
    /\ jobs[st[s].job_id].skip_recap
    /\ ~st[s].skip_recap

\* C30: the step into FAILED changes the job's status, error and
\* progress_message and nothing else of the Job: percent, transcript, speaker
\* samples and skip_recap stay, so a job that fails in phase 2 keeps its
\* transcript from then on.
C30_FailureFrame ==
  [][\A j \in DOMAIN jobs :
       /\ (jobs'[j].status = FAILED /\ jobs[j].status # FAILED)
            => /\ jobs'[j].progress_percent = jobs[j].progress_percent
               /\ jobs'[j].transcript = jobs[j].transcript
               /\ jobs'[j].speaker_samples = jobs[j].speaker_samples
               /\ jobs'[j].skip_recap = jobs[j].skip_recap
       /\ jobs[j].status = FAILED => jobs'[j] = jobs[j]]_vars

C30_Witness ==
  \E j \in DOMAIN jobs :
    /\ jobs[j].status = FAILED
    /\ jobs[j].transcript # None
    /\ jobs[j].speaker_samples # None
    /\ jobs[j].progress_percent = 97
    /\ wk[j].pc = "exit"

\* C21: the worker holds the lock only inside its short lock blocks, never
\* at the checkpoint wait nor in a pipeline call; whoever holds the lock can
\* take the step that releases it; and when nothing can move, no thread is
\* inside a call or holding the lock: callers always get the lock and return.
C21_WaitUnlocked ==
  /\ \A j \in JobIds :
       lock = WorkerThread(j)
         => wk[j].pc \in {"cb", "store", "saving", "recapset", "done", "failing"}
  /\ lock # NoThread => ENABLED (WebNext /\ lock' = NoThread)
  /\ ~ ENABLED WebNext
       => /\ lock = NoThread
          /\ InHandler = {}
          /\ \A j \in JobIds : wk[j].pc \in {"unstarted", "wait", "exit"}

C21_Witness ==
  /\ \E j \in JobIds : wk[j].pc = "wait"
  /\ lock = ReaderThread
  /\ rd.pc = "list"

\* C27: no step removes a job from the table; every job create_job admitted
\* is in the table under the id that create_job returned, different calls
\* under different ids; and list_jobs returns every job of the table.
C27_NeverRemoved ==
  /\ [](\A c \in Creators :
          /\ (cr[c].pc \in {"start", "done"} /\ cr[c].result # "RuntimeError")
               => cr[c].job_id \in DOMAIN jobs
          /\ \A b \in Creators :
               (b # c /\ cr[b].job_id # 0) => cr[b].job_id # cr[c].job_id)
  /\ [][/\ DOMAIN jobs \subseteq DOMAIN jobs'
        /\ (rd.pc = "list" /\ rd' # rd)
             => /\ rd'.pc = "listed"
                /\ rd'.list = DOMAIN jobs
                /\ jobs' = jobs]_vars

C27_Witness ==
  /\ rd.pc = "listed"
  /\ Cardinality(rd.list) = 2
  /\ \E j \in rd.list : jobs[j].status \in {COMPLETED, FAILED}

\* C24: the event stream sends a progress event only on change: the
\* (status, message, percent) of a progress event differs from the one of
\* the progress event sent before it.
C24_EmitOnChange ==
  [][(sse.pc = "emit" /\ sse'.pc = "yielded" /\ sse.event # None)
       => <<sse.status, sse.message, sse.percent>>
            # <<sse.sent_status, sse.sent_msg, sse.sent_percent>>]_vars

\* C25: the event stream never sends a status that is earlier in the
\* lifecycle order than the status of the progress event sent before it, and
\* never a percent below the one sent before it.
C25_EmitsForward ==
  [][(sse.pc = "emit" /\ sse'.pc = "yielded" /\ sse.event # None)
       => /\ Rank(sse'.sent_status) >= Rank(sse.sent_status)
          /\ sse'.sent_percent >= sse.sent_percent
          /\ sse'.sent_status = sse.status
          /\ sse'.sent_percent = sse.percent]_vars

C25_Witness ==
  /\ sse.pc = "emit"
  /\ sse.event = "progress"
  /\ sse.sent_status = TRANSCRIBING
  /\ sse.status = FAILED
  /\ sse.sent_percent < sse.percent

\* C26: the event stream ends on a terminal observation and only then: it
\* sends the completed event when it finds the job COMPLETED, the failed
\* event when it finds it FAILED, the error event when get_job found no job;
\* with that event the stream is closed and sends nothing more, and it is
\* never closed while its job is neither COMPLETED nor FAILED.
C26_ClosesOnTerminal ==
  /\ [](/\ sse.pc = "closed" <=> sse.event \in {"completed", "failed", "error"}
        /\ sse.event = "completed" => jobs[sse.job_id].status = COMPLETED
        /\ sse.event = "failed" => jobs[sse.job_id].status = FAILED
        /\ sse.event = "error" => sse.job = None)
  /\ [][/\ sse.pc = "closed" => sse' = sse
        /\ (sse.pc = "got" /\ sse' # sse /\ sse.job_id \notin DOMAIN jobs)
             => sse'.event = "error"
        /\ (sse'.event = "error" /\ sse.event # "error")
             => sse.job_id \notin DOMAIN jobs
        /\ (sse.pc = "completed" /\ sse' # sse
            /\ jobs[sse.job_id].status = COMPLETED)
             => sse'.event = "completed"
        /\ (sse.pc = "failed" /\ sse' # sse /\ jobs[sse.job_id].status = FAILED)
             => sse'.event = "failed"]_vars

C26_Witness ==
  /\ sse.pc = "closed"
  /\ sse.event = "failed"
  /\ sse.sent_status = SAVING

\* C31: a job and its checkpoint signal enter their tables in one step, made
\* by create_job under the lock while the job's worker is not yet started, so
\* every job of the table has its signal, and the signal is there whenever
\* the worker looks it up to wait and whenever set_speaker_names looks it up
\* to set it.
C31_SignalRegistered ==
  /\ [](/\ DOMAIN jobs = DOMAIN speaker_events
        /\ \A j \in JobIds :
             wk[j].pc # "unstarted" => j \in DOMAIN speaker_events
        /\ \A s \in Setters :
             st[s].pc = "signal" => st[s].job_id \in DOMAIN speaker_events)
  /\ [][\A j \in JobIds :
          (j \in DOMAIN jobs' /\ j \notin DOMAIN jobs)
            => /\ j \in DOMAIN speaker_events'
               /\ \E c \in Creators : lock = CreatorThread(c) /\ cr[c].job_id = j
               /\ wk[j].pc = "unstarted"
               /\ wk'[j].pc = "unstarted"]_vars

C31_Witness ==
  \E j \in DOMAIN jobs, s \in Setters :
    /\ wk[j].pc = "wait"
    /\ st[s].pc = "signal"
    /\ st[s].job_id = j
    /\ ~speaker_events[j]

====
